---- MODULE Spec2Model ----
(***************************************************************************)
(* House-manager: the parcelle form (file variant and gallery variant),    *)
(* the parcelle list screen and the single AsyncStorage key they share.    *)
(*                                                                         *)
(* Every async handler is cut at its awaits.  AsyncStorage serves its      *)
(* requests in the order they were issued: `queue` holds the requests in   *)
(* flight and only its head can complete.  A completion applies the        *)
(* storage effect (or rejects) and runs the handler up to its next await.  *)
(* Strings are sequences of one-character strings, so that trim() and      *)
(* Number() are computed, not assumed.                                     *)
(*                                                                         *)
(* Spec is the running application from its first mount.  SpecValidate     *)
(* applies validateForm to every combination of inputs, SpecStored runs    *)
(* the deletes of the list over a store whose records carry gallery asset  *)
(* ids, and SpecExport applies exportToExcel to every loaded collection.   *)
(* SpecLive runs every operation of both screens under the fairness of     *)
(* the awaited calls, and SpecFile is the mount of the file variant's      *)
(* form, where initializeStorage runs beside handleSave.                   *)
(***************************************************************************)
EXTENDS Integers, Sequences, FiniteSets, TLC

\* ------------------------------------------------------------------ bounds
\* Number of save gestures of a run (each advances the clock by one).
MaxClock == 3
\* Number of operations in flight (see Pending).
MaxQueue == 2

\* ----------------------------------------------------------------- strings
Space == " "
Digits == {"0", "3", "5"}

DigitVal(c) == IF c = "0" THEN 0 ELSE IF c = "3" THEN 3 ELSE 5

RECURSIVE TrimStart(_)
TrimStart(s) ==
  IF s = <<>> THEN <<>>
  ELSE IF Head(s) = Space THEN TrimStart(Tail(s)) ELSE s

RECURSIVE TrimEnd(_)
TrimEnd(s) ==
  IF s = <<>> THEN <<>>
  ELSE IF s[Len(s)] = Space THEN TrimEnd(SubSeq(s, 1, Len(s) - 1)) ELSE s

\* String.prototype.trim
Trim(s) == TrimEnd(TrimStart(s))

RECURSIVE DigitsValue(_, _)
DigitsValue(s, acc) ==
  IF s = <<>> THEN acc ELSE DigitsValue(Tail(s), 10 * acc + DigitVal(Head(s)))

AllDigits(s) == s # <<>> /\ \A i \in 1..Len(s) : s[i] \in Digits

NaN == [nan |-> TRUE, val |-> 0]
Num(n) == [nan |-> FALSE, val |-> n]

\* Number(string): surrounding white space is ignored, the empty string is 0,
\* an optionally signed run of digits is its value, anything else is NaN.
Number(s) ==
  LET t == Trim(s) IN
    IF t = <<>> THEN Num(0)
    ELSE IF Head(t) = "-"
      THEN IF AllDigits(Tail(t)) THEN Num(0 - DigitsValue(Tail(t), 0)) ELSE NaN
      ELSE IF AllDigits(t) THEN Num(DigitsValue(t, 0)) ELSE NaN

isNaN(n) == n.nan

\* ------------------------------------------------------------------- dates
\* new Date(ms).toISOString() and new Date(iso).getTime()
toISOString(ms) == <<"iso", ms>>
getTime(iso) == iso[2]

\* -------------------------------------------------------------------- JSON
\* An image reference in memory is null (NoImage) or {uri, name, assetId}; a
\* property that is missing and one that is undefined are different objects
\* in memory and the same text in storage.
NoImage == [uri |-> "null", name |-> "null", assetId |-> "absent"]

StringifyImage(img) ==
  IF img.assetId = "undefined" THEN [img EXCEPT !.assetId = "absent"] ELSE img

\* JSON.stringify of a Parcelle[]: properties whose value is undefined are
\* dropped, the order of the array is kept.
JSONstringify(ps) ==
  [i \in 1..Len(ps) |-> [ps[i] EXCEPT !.image = StringifyImage(ps[i].image)]]

\* A parse that stamps every record it reads with the epoch.
MutJSONparse(text) ==
  [i \in 1..Len(text) |-> [text[i] EXCEPT !.createdAt = toISOString(0)]]

\* JSON.parse of a text written by JSONstringify: the array of the objects
\* the text denotes.
JSONparse(text) == [i \in 1..Len(text) |-> text[i]]

\* ---------------------------------------------------------------- validity
NoErrors == [f \in {} |-> ""]

\* The numeroDeLot rule without the search for an existing record.
MutLotErrors(numeroDeLot, parcelles) ==
  IF Trim(numeroDeLot) = <<>>
    THEN "numeroDeLot" :> "N de lot requis"
    ELSE NoErrors

\* validateForm, the numeroDeLot rule
LotErrors(numeroDeLot, parcelles) ==
  IF Trim(numeroDeLot) = <<>>
    THEN "numeroDeLot" :> "N de lot requis"
    ELSE IF \E i \in 1..Len(parcelles) : parcelles[i].numeroDeLot = Trim(numeroDeLot)
      THEN "numeroDeLot" :> "Ce numero de lot existe deja"
      ELSE NoErrors

\* validateForm, the etatDeParcelle rule
EtatErrors(etatDeParcelle) ==
  IF Trim(etatDeParcelle) = <<>>
    THEN "etatDeParcelle" :> "Etat de parcelle requis"
    ELSE NoErrors

\* The nombreDeLogement rule with < 0 in place of <= 0.
MutLogementErrors(nombreDeLogement) ==
  IF Trim(nombreDeLogement) = <<>>
    THEN "nombreDeLogement" :> "Nombre de logements requis"
    ELSE IF isNaN(Number(nombreDeLogement)) \/ Number(nombreDeLogement).val < 0
      THEN "nombreDeLogement" :> "Doit etre un nombre positif"
      ELSE NoErrors

\* validateForm, the nombreDeLogement rule
LogementErrors(nombreDeLogement) ==
  IF Trim(nombreDeLogement) = <<>>
    THEN "nombreDeLogement" :> "Nombre de logements requis"
    ELSE IF isNaN(Number(nombreDeLogement)) \/ Number(nombreDeLogement).val <= 0
      THEN "nombreDeLogement" :> "Doit etre un nombre positif"
      ELSE NoErrors

\* validateForm returning at the first broken rule.
MutValidateForm(numeroDeLot, etatDeParcelle, nombreDeLogement, parcelles) ==
  LET lot == LotErrors(numeroDeLot, parcelles) IN
    IF DOMAIN lot # {} THEN lot
    ELSE EtatErrors(etatDeParcelle) @@ LogementErrors(nombreDeLogement)

\* validateForm: the three rules run one after the other into newErrors
validateForm(numeroDeLot, etatDeParcelle, nombreDeLogement, parcelles) ==
  LotErrors(numeroDeLot, parcelles)
    @@ EtatErrors(etatDeParcelle)
    @@ LogementErrors(nombreDeLogement)

\* Object.keys(newErrors).length === 0
IsValid(errs) == DOMAIN errs = {}

\* -------------------------------------------------------------------- sort
\* Array.prototype.sort is stable: insert x after the elements that do not
\* come after it under the comparator b.createdAt - a.createdAt.
RECURSIVE InsertDesc(_, _)
InsertDesc(x, s) ==
  IF s = <<>> THEN <<x>>
  ELSE IF getTime(Head(s).createdAt) >= getTime(x.createdAt)
    THEN <<Head(s)>> \o InsertDesc(x, Tail(s))
    ELSE <<x>> \o s

RECURSIVE SortFrom(_, _)
SortFrom(s, acc) ==
  IF s = <<>> THEN acc ELSE SortFrom(Tail(s), InsertDesc(Head(s), acc))

\* A load that forgets to sort.
MutSortDesc(s) == s

\* A load that reverses the stored order instead of sorting it.
RECURSIVE ReverseOrder(_)
ReverseOrder(s) ==
  IF s = <<>> THEN <<>> ELSE Append(ReverseOrder(Tail(s)), Head(s))

\* parsedParcelles.sort((a, b) => getTime(b.createdAt) - getTime(a.createdAt))
SortDesc(s) == SortFrom(s, <<>>)

\* parcelles.filter(parcelle => parcelle.id !== parcelleId)
RECURSIVE FilterOut(_, _)
FilterOut(s, parcelleId) ==
  IF s = <<>> THEN <<>>
  ELSE IF Head(s).id # parcelleId
    THEN <<Head(s)>> \o FilterOut(Tail(s), parcelleId)
    ELSE FilterOut(Tail(s), parcelleId)


\* ------------------------------------------------------------------- state
VARIABLES
  variant,          \* which AddParcelleForm is built in: "file" or "gallery"
  now,              \* the clock read by Date.now() and new Date()
  storage,          \* AsyncStorage under STORAGE_KEY: [has, val]
  photos,           \* photos registered in the gallery by saveToLibraryAsync
  imageFiles,       \* files copied into IMAGES_DIRECTORY (file variant)
  imagesDir,        \* IMAGES_DIRECTORY exists
  initPc,           \* initializeStorage: at "info" or "mkdir", or how it ended
  assets,           \* gallery assets that have an asset id
  queue,            \* AsyncStorage requests in flight, oldest first
  screen,           \* the focused screen: "list" or "form"
  formParcelles,    \* AddParcelleForm: parcelles
  numeroDeLot,      \* AddParcelleForm: numeroDeLot
  etatDeParcelle,   \* AddParcelleForm: etatDeParcelle
  nombreDeLogement, \* AddParcelleForm: nombreDeLogement
  image,            \* AddParcelleForm: image
  errors,           \* AddParcelleForm: errors
  isSaving,         \* AddParcelleForm: isSaving
  savePc,           \* handleSave: the await it is suspended at
  saveParcelles,    \* handleSave: the parcelles of the render it was called in
  listParcelles,    \* Index: parcelles
  isLoading,        \* Index: isLoading
  isDeleting,       \* Index: isDeleting (NoId for null)
  deleteAllPc,      \* deleteAllParcelles: the await it is suspended at
  deleteAllParcellesSeen, \* deleteAllParcelles: the parcelles of its render
  deleteMedia,      \* deleteParcelle calls suspended in deleteImageFromMediaLibrary
  isExporting,      \* Index: isExporting
  exportPc,         \* exportToExcel: the await it is suspended at
  wbout,            \* exportToExcel: the workbook it has built
  exportFile,       \* the file exportToExcel writes in documentDirectory
  shared,           \* the workbooks handed to Sharing.shareAsync
  alerts,           \* the notices shown by Alert.alert in the step just taken
  onSaveArgs        \* the ids of the records handed to onSave in that step

exportVars == <<isExporting, exportPc, wbout, exportFile, shared>>
initVars == <<imagesDir, initPc>>
\* The build and what only exportToExcel and initializeStorage touch.
appVars == <<variant, exportVars, initVars>>
envVars == <<appVars, now, storage, photos, imageFiles, assets, queue, screen>>
fieldVars == <<numeroDeLot, etatDeParcelle, nombreDeLogement, image>>
formVars == <<formParcelles, fieldVars, errors, isSaving, savePc, saveParcelles>>
listVars == <<listParcelles, isLoading, isDeleting, deleteAllPc,
              deleteAllParcellesSeen, deleteMedia>>
outVars == <<alerts, onSaveArgs>>
vars == <<envVars, formVars, listVars, outVars>>

NoId == 0
Absent == [has |-> FALSE, val |-> <<>>]
Stored(text) == [has |-> TRUE, val |-> text]
\* An AsyncStorage call in flight and what its caller's continuation holds.
Request(who, data, id) == [who |-> who, data |-> data, id |-> id]
LoadRequest(who) == Request(who, <<>>, NoId)

\* The getItem of the loadParcelles() that the catch of deleteParcelle calls
\* for parcelleId.
ReloadRequest(parcelleId) == Request("lload", <<>>, parcelleId)

\* deleteParcelle awaiting setItem; its continuation holds the id and the
\* image it was called with.
DeleteRequest(data, parcelleId, img) ==
  [who |-> "ldelete", data |-> data, id |-> parcelleId, image |-> img]

\* image?.assetId is truthy
HasAssetId(img) == img.assetId \notin {"absent", "undefined"}

\* Alert.alert(title, message)
Alert(title, message) == [title |-> title, message |-> message]
AlertLoadError == Alert("Erreur", "erreur lors du chargement des donnees")
AlertDeleted == Alert("Succes", "Parcelle supprimee avec succes")
AlertDeleteError == Alert("Erreur", "erreur lors de la suppression")
AlertAllDeleted == Alert("Succes", "Toutes les parcelles ont ete supprimees")
AlertNothingToExport == Alert("Attention", "Aucune donnee a exporter")
AlertExportShared == Alert("Succes", "Fichier Excel cree et sauvegarde avec succes")
AlertExportSaved == Alert("Succes", "Fichier Excel cree et sauvegarde dans")
AlertExportError == Alert("Erreur", "erreur lors de la creation du fichier Excel")
AlertPermission == Alert("Permission requise", "autorisation d'acces a la galerie")
AlertSaved == Alert("Succes", "Parcelle sauvegardee avec succes!")
AlertSavedWithPhoto == Alert("Succes", "Parcelle sauvegardee, photo dans la galerie")
AlertSaveError == Alert("Erreur", "erreur lors de la sauvegarde des donnees")

\* What the step shows; onSave is not called.
Shows(as) == alerts' = as /\ onSaveArgs' = <<>>
Quiet == Shows(<<>>)

\* The photo the camera hands to setImage: {uri, name}
Photo == [uri |-> "capture", name |-> "parcelle.jpg", assetId |-> "absent"]

\* What the user may have typed when the save button is pressed.
LotInputs == {<<>>, <<" ">>, <<"A">>, <<" ", "A", " ">>, <<"B">>, <<"C">>}
EtatInputs == {<<>>, <<" ">>, <<"x">>}
LogementInputs == {<<>>, <<" ">>, <<"5">>, <<" ", "5">>, <<"0">>, <<"-", "3">>,
                   <<"a", "b", "c">>, <<"5", "a">>, <<"3", "0">>}
ImageInputs == {NoImage, Photo}

Fill(lot, etat, logement, img) ==
  [numeroDeLot |-> lot, etatDeParcelle |-> etat, nombreDeLogement |-> logement,
   image |-> img]

\* The fills tried against the running application.
Fills ==
  { Fill(<<" ", "A", " ">>, <<"x">>, <<" ", "5">>, Photo),
    Fill(<<"B">>, <<"x">>, <<"5">>, NoImage),
    Fill(<<"C">>, <<" ", "x">>, <<"3", "0">>, Photo),
    Fill(<<" ">>, <<>>, <<"0">>, NoImage) }

\* The operations in flight: requests in queue, suspended handlers that will
\* need a place in it, and a running export.
Pending ==
  Len(queue)
    + (IF savePc \in {"perm", "copy", "lib", "tmpdel"} THEN 1 ELSE 0)
    + (IF deleteAllPc = "perm" THEN 1 ELSE 0)
    + Cardinality(deleteMedia)
    + (IF exportPc # "idle" THEN 1 ELSE 0)

HeadIs(whos) == queue # <<>> /\ Head(queue).who \in whos

\* The state of a freshly mounted AddParcelleForm.
FormMounted ==
  /\ formParcelles' = <<>>
  /\ numeroDeLot' = <<>>
  /\ etatDeParcelle' = <<>>
  /\ nombreDeLogement' = <<>>
  /\ image' = NoImage
  /\ errors' = NoErrors
  /\ isSaving' = FALSE
  /\ savePc' = "idle"
  /\ saveParcelles' = <<>>

\* An earlier mount of the form has run initializeStorage: the image
\* directory exists.
StorageReady ==
  /\ imagesDir = TRUE
  /\ initPc = "found"

\* No export has run: isExporting is false and nothing was written or shared.
NoFile == <<>>
ExportIdle ==
  /\ isExporting = FALSE
  /\ exportPc = "idle"
  /\ wbout = NoFile
  /\ exportFile = NoFile
  /\ shared = {}

Init ==
  /\ variant \in {"file", "gallery"}
  /\ now = 0
  /\ storage = Absent
  /\ photos = {}
  /\ imageFiles = {}
  /\ assets = {}
  /\ screen = "list"
  /\ formParcelles = <<>>
  /\ numeroDeLot = <<>>
  /\ etatDeParcelle = <<>>
  /\ nombreDeLogement = <<>>
  /\ image = NoImage
  /\ errors = NoErrors
  /\ isSaving = FALSE
  /\ savePc = "idle"
  /\ saveParcelles = <<>>
  /\ listParcelles = <<>>
  /\ isLoading = TRUE
  /\ isDeleting = NoId
  /\ deleteAllPc = "idle"
  /\ deleteAllParcellesSeen = <<>>
  /\ deleteMedia = {}
  /\ ExportIdle
  /\ StorageReady
  /\ alerts = <<>>
  /\ onSaveArgs = <<>>
  /\ queue = <<LoadRequest("lload")>>


\* ------------------------------------------------------------- list screen
\* loadParcelles of Index up to its await: setIsLoading(true), getItem
ListLoadStart(who, q) ==
  /\ isLoading' = TRUE
  /\ queue' = Append(q, LoadRequest(who))

\* loadParcelles of Index from its await on: getItem resolved or rejected
ListLoadDone ==
  /\ HeadIs({"lload"})
  /\ \E ok \in BOOLEAN :
       /\ listParcelles' =
            IF ok
              THEN IF storage.has THEN SortDesc(JSONparse(storage.val)) ELSE <<>>
              ELSE listParcelles
       /\ Shows(IF ok THEN <<>> ELSE <<AlertLoadError>>)
  /\ isLoading' = FALSE
  /\ queue' = Tail(queue)
  /\ UNCHANGED <<appVars, now, storage, photos, imageFiles, assets, screen,
                 formVars, isDeleting, deleteAllPc, deleteAllParcellesSeen,
                 deleteMedia>>

\* deleteParcelle, the onPress of "Supprimer", up to its await on setItem
DeleteConfirm ==
  /\ screen = "list" /\ ~isLoading
  /\ Pending < MaxQueue
  /\ \E i \in 1..Len(listParcelles) :
       LET parcelleId == listParcelles[i].id
           updatedParcelles == FilterOut(listParcelles, parcelleId)
       IN /\ isDeleting # parcelleId
          /\ isDeleting' = parcelleId
          /\ listParcelles' = updatedParcelles
          /\ queue' = Append(queue,
                        DeleteRequest(JSONstringify(updatedParcelles),
                                      parcelleId, listParcelles[i].image))
  /\ Quiet
  /\ UNCHANGED <<appVars, now, storage, photos, imageFiles, assets, screen,
                 formVars, isLoading, deleteAllPc, deleteAllParcellesSeen,
                 deleteMedia>>

\* A single delete that deletes the gallery asset whether or not its write
\* resolved.
MutDeleteWriteDone ==
  /\ HeadIs({"ldelete"})
  /\ \E ok \in BOOLEAN :
       IF ok
         THEN /\ storage' = Stored(Head(queue).data)
              /\ queue' = Tail(queue)
              /\ UNCHANGED isLoading
              /\ IF HasAssetId(Head(queue).image)
                   THEN /\ deleteMedia' = deleteMedia \cup
                             {[id |-> Head(queue).id,
                               assetId |-> Head(queue).image.assetId]}
                        /\ Quiet
                        /\ UNCHANGED isDeleting
                   ELSE /\ Shows(<<AlertDeleted>>)
                        /\ isDeleting' = NoId
                        /\ UNCHANGED deleteMedia
         ELSE /\ isLoading' = TRUE
              /\ queue' = Append(Tail(queue), ReloadRequest(Head(queue).id))
              /\ Shows(<<AlertDeleteError>>)
              /\ isDeleting' = NoId
              /\ deleteMedia' =
                   IF HasAssetId(Head(queue).image)
                     THEN deleteMedia \cup
                            {[id |-> Head(queue).id,
                              assetId |-> Head(queue).image.assetId]}
                     ELSE deleteMedia
              /\ UNCHANGED storage
  /\ UNCHANGED <<appVars, now, photos, imageFiles, assets, screen, formVars,
                 listParcelles, deleteAllPc, deleteAllParcellesSeen>>

\* deleteParcelle from its await on setItem on.  Resolved: with an assetId
\* the handler goes on to await deleteImageFromMediaLibrary, without one it
\* shows the success notice and ends.  Rejected: catch shows the error and
\* calls loadParcelles, which sets isLoading and awaits getItem.  finally:
\* setIsDeleting(null)
DeleteWriteDone ==
  /\ HeadIs({"ldelete"})
  /\ \E ok \in BOOLEAN :
       IF ok
         THEN /\ storage' = Stored(Head(queue).data)
              /\ queue' = Tail(queue)
              /\ UNCHANGED isLoading
              /\ IF HasAssetId(Head(queue).image)
                   THEN /\ deleteMedia' = deleteMedia \cup
                             {[id |-> Head(queue).id,
                               assetId |-> Head(queue).image.assetId]}
                        /\ Quiet
                        /\ UNCHANGED isDeleting
                   ELSE /\ Shows(<<AlertDeleted>>)
                        /\ isDeleting' = NoId
                        /\ UNCHANGED deleteMedia
         ELSE /\ isLoading' = TRUE
              /\ queue' = Append(Tail(queue), ReloadRequest(Head(queue).id))
              /\ Shows(<<AlertDeleteError>>)
              /\ isDeleting' = NoId
              /\ UNCHANGED <<storage, deleteMedia>>
  /\ UNCHANGED <<appVars, now, photos, imageFiles, assets, screen, formVars,
                 listParcelles, deleteAllPc, deleteAllParcellesSeen>>

\* A single delete that treats a failed asset deletion as its own failure.
MutDeleteMedia ==
  /\ \E d \in deleteMedia :
       /\ \E outcome \in {"granted", "denied", "error"} :
            /\ assets' = IF outcome = "granted" THEN assets \ {d.assetId}
                         ELSE assets
            /\ Shows(IF outcome = "granted" THEN <<AlertDeleted>>
                     ELSE <<AlertDeleteError>>)
       /\ deleteMedia' = deleteMedia \ {d}
  /\ isDeleting' = NoId
  /\ UNCHANGED <<appVars, now, storage, photos, imageFiles, queue, screen,
                 formVars, listParcelles, isLoading, deleteAllPc,
                 deleteAllParcellesSeen>>

\* deleteImageFromMediaLibrary inside deleteParcelle: permission granted and
\* the asset deleted, permission denied, or a call that rejects (caught and
\* logged); then the success notice and finally setIsDeleting(null)
DeleteMedia ==
  /\ \E d \in deleteMedia :
       /\ \E outcome \in {"granted", "denied", "error"} :
            assets' = IF outcome = "granted" THEN assets \ {d.assetId}
                      ELSE assets
       /\ deleteMedia' = deleteMedia \ {d}
  /\ Shows(<<AlertDeleted>>)
  /\ isDeleting' = NoId
  /\ UNCHANGED <<appVars, now, storage, photos, imageFiles, queue, screen,
                 formVars, listParcelles, isLoading, deleteAllPc,
                 deleteAllParcellesSeen>>

\* The asset ids deleteAllMediaLibraryImages collects from parcelles
AssetIds(ps) ==
  {ps[i].image.assetId : i \in 1..Len(ps)} \ {"absent", "undefined"}

\* deleteAllParcelles, the onPress of "Supprimer tout", up to the await on
\* requestPermissionsAsync in deleteAllMediaLibraryImages
DeleteAllConfirm ==
  /\ screen = "list" /\ ~isLoading /\ listParcelles # <<>>
  /\ deleteAllPc = "idle"
  /\ Pending < MaxQueue
  /\ isLoading' = TRUE
  /\ deleteAllPc' = "perm"
  /\ deleteAllParcellesSeen' = listParcelles
  /\ Quiet
  /\ UNCHANGED <<envVars, formVars, listParcelles, isDeleting, deleteMedia>>

\* deleteAllMediaLibraryImages: permission denied, granted (deleteAssetsAsync
\* resolves or rejects) or the request rejects; every outcome returns
\* normally and deleteAllParcelles goes on to removeItem
DeleteAllMedia ==
  /\ deleteAllPc = "perm"
  /\ \E outcome \in {"granted", "denied", "error"} :
       assets' =
         IF outcome = "granted" THEN assets \ AssetIds(deleteAllParcellesSeen)
         ELSE assets
  /\ deleteAllPc' = "remove"
  /\ queue' = Append(queue, LoadRequest("lclear"))
  /\ Quiet
  /\ UNCHANGED <<appVars, now, storage, photos, imageFiles, screen, formVars,
                 listParcelles, isLoading, isDeleting, deleteAllParcellesSeen,
                 deleteMedia>>

\* deleteAllParcelles from its await on removeItem on
DeleteAllDone ==
  /\ HeadIs({"lclear"})
  /\ \E ok \in BOOLEAN :
       IF ok
         THEN /\ storage' = Absent /\ listParcelles' = <<>>
              /\ Shows(<<AlertAllDeleted>>)
         ELSE /\ UNCHANGED <<storage, listParcelles>>
              /\ Shows(<<AlertDeleteError>>)
  /\ isLoading' = FALSE
  /\ deleteAllPc' = "idle"
  /\ deleteAllParcellesSeen' = <<>>
  /\ queue' = Tail(queue)
  /\ UNCHANGED <<appVars, now, photos, imageFiles, assets, screen, formVars,
                 isDeleting, deleteMedia>>


\* -------------------------------------------------------------- navigation
\* router.push("/add-parcelle-form"): the form mounts and its effect calls
\* loadParcelles, which awaits getItem
OpenForm ==
  /\ screen = "list" /\ ~isLoading
  /\ Pending < MaxQueue
  /\ screen' = "form"
  /\ FormMounted
  /\ queue' = Append(queue, LoadRequest("fload"))
  /\ Quiet
  /\ UNCHANGED <<appVars, now, storage, photos, imageFiles, assets, listVars>>

\* A getItem of a form that has unmounted sets the state of no component.
DropFormLoads(q) == SelectSeq(q, LAMBDA r : r.who # "fload")

\* A return to the list whose focus effect does not reload.
MutFocusList(q) ==
  /\ screen' = "list"
  /\ FormMounted
  /\ queue' = DropFormLoads(q)
  /\ UNCHANGED isLoading

\* The form is left: it unmounts and the list's focus effect calls
\* loadParcelles
FocusList(q) ==
  /\ screen' = "list"
  /\ FormMounted
  /\ ListLoadStart("lload", DropFormLoads(q))

\* The user leaves the form without saving.
Back ==
  /\ screen = "form" /\ savePc = "idle"
  /\ FocusList(queue)
  /\ Quiet
  /\ UNCHANGED <<appVars, now, storage, photos, imageFiles, assets,
                 listParcelles, isDeleting, deleteAllPc, deleteAllParcellesSeen,
                 deleteMedia>>

\* ------------------------------------------------------------- form screen
\* loadParcelles of AddParcelleForm from its await on
FormLoadDone ==
  /\ HeadIs({"fload"})
  /\ \E ok \in BOOLEAN :
       formParcelles' =
         IF ok /\ storage.has THEN JSONparse(storage.val) ELSE formParcelles
  /\ queue' = Tail(queue)
  /\ Quiet
  /\ UNCHANGED <<appVars, now, storage, photos, imageFiles, assets, screen,
                 fieldVars, errors, isSaving, savePc, saveParcelles, listVars>>

\* The fields of the form as handleSave's render sees them
CurrentFill == Fill(numeroDeLot, etatDeParcelle, nombreDeLogement, image)

\* A newParcelle whose id is not read from the clock.
MutNewParcelle(f, savedImage, clock) ==
  [id |-> MaxClock,
   numeroDeLot |-> Trim(f.numeroDeLot),
   etatDeParcelle |-> Trim(f.etatDeParcelle),
   nombreDeLogement |-> Trim(f.nombreDeLogement),
   acheve |-> <<>>,
   enCours |-> <<>>,
   image |-> savedImage,
   createdAt |-> toISOString(clock)]

\* A newParcelle that stores the fields as typed, without trim().
UntrimmedParcelle(f, savedImage, clock) ==
  [id |-> clock,
   numeroDeLot |-> f.numeroDeLot,
   etatDeParcelle |-> f.etatDeParcelle,
   nombreDeLogement |-> f.nombreDeLogement,
   acheve |-> <<>>,
   enCours |-> <<>>,
   image |-> savedImage,
   createdAt |-> toISOString(clock)]

\* const newParcelle: Parcelle = {...}
NewParcelle(f, savedImage, clock) ==
  [id |-> clock,
   numeroDeLot |-> Trim(f.numeroDeLot),
   etatDeParcelle |-> Trim(f.etatDeParcelle),
   nombreDeLogement |-> Trim(f.nombreDeLogement),
   acheve |-> <<>>,
   enCours |-> <<>>,
   image |-> savedImage,
   createdAt |-> toISOString(clock)]

\* handleSave putting the new record first: [newParcelle, ...parcelles].
MutAppendAndWrite(f, parcellesSeen, savedImage, clock) ==
  LET updatedParcelles == <<NewParcelle(f, savedImage, clock)>> \o parcellesSeen
  IN /\ formParcelles' = updatedParcelles
     /\ queue' = Append(queue, Request("fsave", JSONstringify(updatedParcelles),
                                       NoId))
     /\ savePc' = "write"

\* handleSave from newParcelle to its await on setItem: the record is added
\* to the parcelles of the render handleSave was called in
AppendAndWrite(f, parcellesSeen, savedImage, clock) ==
  LET updatedParcelles == Append(parcellesSeen, NewParcelle(f, savedImage, clock))
  IN /\ formParcelles' = updatedParcelles
     /\ queue' = Append(queue, Request("fsave", JSONstringify(updatedParcelles),
                                       NoId))
     /\ savePc' = "write"

\* A catch of handleSave with no finally: isSaving stays set.
MutSaveFailed ==
  /\ Shows(<<AlertSaveError>>)
  /\ UNCHANGED isSaving
  /\ savePc' = "idle"

\* catch and finally of handleSave
SaveFailed ==
  /\ Shows(<<AlertSaveError>>)
  /\ isSaving' = FALSE
  /\ savePc' = "idle"

\* handleSave going on whatever validateForm returned.
MutSaveAfterValidation(f, newErrors) ==
  /\ isSaving' = TRUE
  /\ saveParcelles' = formParcelles
  /\ IF f.image = NoImage
       THEN AppendAndWrite(f, formParcelles, NoImage, now')
       ELSE /\ savePc' = (IF variant = "gallery" THEN "perm" ELSE "copy")
            /\ UNCHANGED <<formParcelles, queue>>

\* handleSave after a validateForm that returned newErrors, up to its first
\* await
SaveAfterValidation(f, newErrors) ==
  IF ~IsValid(newErrors)
    THEN UNCHANGED <<formParcelles, isSaving, savePc, saveParcelles, queue>>
    ELSE /\ isSaving' = TRUE
         /\ saveParcelles' = formParcelles
         /\ IF f.image = NoImage
              THEN AppendAndWrite(f, formParcelles, NoImage, now')
              ELSE /\ savePc' = (IF variant = "gallery" THEN "perm" ELSE "copy")
                   /\ UNCHANGED <<formParcelles, queue>>

\* The save button is pressed on a form filled with f: the fields are state
\* of the form, the gesture takes time, and handleSave runs up to its first
\* await.
HandleSave(f) ==
  /\ screen = "form" /\ ~isSaving
  /\ now < MaxClock
  /\ Pending < MaxQueue
  /\ now' = now + 1
  /\ numeroDeLot' = f.numeroDeLot
  /\ etatDeParcelle' = f.etatDeParcelle
  /\ nombreDeLogement' = f.nombreDeLogement
  /\ image' = f.image
  /\ LET newErrors == validateForm(f.numeroDeLot, f.etatDeParcelle,
                                   f.nombreDeLogement, formParcelles)
     IN /\ errors' = newErrors
        /\ SaveAfterValidation(f, newErrors)
  /\ Quiet
  /\ UNCHANGED <<appVars, storage, photos, imageFiles, assets, screen,
                 listVars>>

\* A denied permission that aborts handleSave like a rejected call.
MutSavePermission ==
  /\ savePc = "perm"
  /\ \E outcome \in {"granted", "denied", "error"} :
       CASE outcome = "granted" ->
              /\ savePc' = "copy"
              /\ Quiet
              /\ UNCHANGED <<formParcelles, queue, isSaving>>
         [] outcome = "denied" ->
              /\ Shows(<<AlertPermission>>)
              /\ isSaving' = FALSE
              /\ savePc' = "idle"
              /\ UNCHANGED <<formParcelles, queue>>
         [] OTHER ->
              /\ SaveFailed
              /\ UNCHANGED <<formParcelles, queue>>
  /\ UNCHANGED <<appVars, now, storage, photos, imageFiles, assets, screen,
                 fieldVars, errors, saveParcelles, listVars>>

\* saveImageToMediaLibrary at requestPermissionsAsync: granted, denied
\* (return null: handleSave keeps the captured image) or rejected
SavePermission ==
  /\ savePc = "perm"
  /\ \E outcome \in {"granted", "denied", "error"} :
       CASE outcome = "granted" ->
              /\ savePc' = "copy"
              /\ Quiet
              /\ UNCHANGED <<formParcelles, queue, isSaving>>
         [] outcome = "denied" ->
              /\ AppendAndWrite(CurrentFill, saveParcelles, image, now)
              /\ Shows(<<AlertPermission>>)
              /\ UNCHANGED isSaving
         [] OTHER ->
              /\ SaveFailed
              /\ UNCHANGED <<formParcelles, queue>>
  /\ UNCHANGED <<appVars, now, storage, photos, imageFiles, assets, screen,
                 fieldVars, errors, saveParcelles, listVars>>

\* How copyAsync may end: a copy into a directory that does not exist is
\* rejected.
CopyOutcomes == IF variant = "file" /\ ~imagesDir THEN {FALSE} ELSE BOOLEAN

\* A failed copy after which handleSave keeps the captured image and goes on.
MutSaveCopy ==
  /\ savePc = "copy"
  /\ \E ok \in CopyOutcomes :
       IF ~ok
         THEN /\ AppendAndWrite(CurrentFill, saveParcelles, image, now)
              /\ Quiet
              /\ UNCHANGED <<isSaving, imageFiles>>
         ELSE IF variant = "file"
           THEN /\ imageFiles' = imageFiles \cup {now}
                /\ AppendAndWrite(CurrentFill, saveParcelles,
                     [uri |-> "images", name |-> image.name,
                      assetId |-> "absent"], now)
                /\ Quiet
                /\ UNCHANGED isSaving
           ELSE /\ savePc' = "lib"
                /\ Quiet
                /\ UNCHANGED <<formParcelles, queue, isSaving, imageFiles>>
  /\ UNCHANGED <<appVars, now, storage, photos, assets, screen, fieldVars,
                 errors, saveParcelles, listVars>>

\* FileSystem.copyAsync: into the image directory (saveImageToFileSystem) or
\* to the cache (saveImageToMediaLibrary)
SaveCopy ==
  /\ savePc = "copy"
  /\ \E ok \in CopyOutcomes :
       IF ~ok
         THEN SaveFailed /\ UNCHANGED <<formParcelles, queue, imageFiles>>
         ELSE IF variant = "file"
           THEN /\ imageFiles' = imageFiles \cup {now}
                /\ AppendAndWrite(CurrentFill, saveParcelles,
                     [uri |-> "images", name |-> image.name,
                      assetId |-> "absent"], now)
                /\ Quiet
                /\ UNCHANGED isSaving
           ELSE /\ savePc' = "lib"
                /\ Quiet
                /\ UNCHANGED <<formParcelles, queue, isSaving, imageFiles>>
  /\ UNCHANGED <<appVars, now, storage, photos, assets, screen, fieldVars,
                 errors, saveParcelles, listVars>>

\* MediaLibrary.saveToLibraryAsync(tempUri)
SaveToLibrary ==
  /\ savePc = "lib"
  /\ \E ok \in BOOLEAN :
       IF ok
         THEN /\ photos' = photos \cup {now}
              /\ savePc' = "tmpdel"
              /\ Quiet
              /\ UNCHANGED isSaving
         ELSE SaveFailed /\ UNCHANGED photos
  /\ UNCHANGED <<appVars, now, storage, imageFiles, assets, queue, screen,
                 formParcelles, fieldVars, errors, saveParcelles, listVars>>

\* A saveImageToMediaLibrary that returns the id of the asset it registered.
MutSaveTempDelete ==
  /\ savePc = "tmpdel"
  /\ \E ok \in BOOLEAN :
       IF ok
         THEN /\ AppendAndWrite(CurrentFill, saveParcelles,
                   [uri |-> image.uri, name |-> "Parcelle.jpg",
                    assetId |-> "asset1"], now)
              /\ Quiet
              /\ UNCHANGED isSaving
         ELSE SaveFailed /\ UNCHANGED <<formParcelles, queue>>
  /\ UNCHANGED <<appVars, now, storage, photos, imageFiles, assets, screen,
                 fieldVars, errors, saveParcelles, listVars>>

\* FileSystem.deleteAsync(tempUri), then the return of saveImageToMediaLibrary
\* and handleSave up to setItem
SaveTempDelete ==
  /\ savePc = "tmpdel"
  /\ \E ok \in BOOLEAN :
       IF ok
         THEN /\ AppendAndWrite(CurrentFill, saveParcelles,
                   [uri |-> image.uri, name |-> "Parcelle.jpg",
                    assetId |-> "undefined"], now)
              /\ Quiet
              /\ UNCHANGED isSaving
         ELSE SaveFailed /\ UNCHANGED <<formParcelles, queue>>
  /\ UNCHANGED <<appVars, now, storage, photos, imageFiles, assets, screen,
                 fieldVars, errors, saveParcelles, listVars>>

\* The success notice of handleSave: the gallery variant shows one, worded
\* by whether savedImage is set; the file variant shows none.
SaveSuccessAlerts ==
  IF variant = "file" THEN <<>>
  ELSE IF image # NoImage THEN <<AlertSavedWithPhoto>> ELSE <<AlertSaved>>

\* handleSave from its await on setItem on: onSave, the reset of the form and
\* router.back(), or catch; finally setIsSaving(false)
SaveWriteDone ==
  /\ HeadIs({"fsave"})
  /\ \E ok \in BOOLEAN :
       IF ok
         THEN /\ storage' = Stored(Head(queue).data)
              /\ onSaveArgs' = <<Head(queue).data[Len(Head(queue).data)].id>>
              /\ alerts' = SaveSuccessAlerts
              /\ FocusList(Tail(queue))
         ELSE /\ SaveFailed
              /\ queue' = Tail(queue)
              /\ UNCHANGED <<storage, screen, formParcelles, fieldVars, errors,
                             saveParcelles, isLoading>>
  /\ UNCHANGED <<appVars, now, photos, imageFiles, assets, listParcelles,
                 isDeleting, deleteAllPc, deleteAllParcellesSeen, deleteMedia>>

\* ------------------------------------------------------------------- system
Next ==
  \/ ListLoadDone
  \/ DeleteConfirm
  \/ DeleteWriteDone
  \/ DeleteAllConfirm
  \/ DeleteAllMedia
  \/ DeleteAllDone
  \/ OpenForm
  \/ Back
  \/ FormLoadDone
  \/ \E f \in Fills : HandleSave(f)
  \/ SavePermission
  \/ SaveCopy
  \/ SaveToLibrary
  \/ SaveTempDelete
  \/ SaveWriteDone

Spec == Init /\ [][Next]_vars

\* --------------------------------------------------- validation on its own
\* validateForm as a function of what is typed and of the form's collection:
\* a form that has mounted and loaded one of these collections, on which the
\* save button is pressed with every combination of the inputs.
AllFills ==
  {Fill(lot, etat, logement, img) :
     lot \in LotInputs, etat \in EtatInputs, logement \in LogementInputs,
     img \in ImageInputs}

ExistingA == NewParcelle(Fill(<<"A">>, <<"x">>, <<"5">>, NoImage), NoImage, 1)
ExistingB == NewParcelle(Fill(<<"B">>, <<"x">>, <<"5">>, NoImage), NoImage, 2)
ExistingCollections == {<<>>, <<ExistingA>>, <<ExistingA, ExistingB>>}

InitValidate ==
  /\ variant \in {"file", "gallery"}
  /\ formParcelles \in ExistingCollections
  /\ now = Len(formParcelles)
  /\ storage = (IF formParcelles = <<>> THEN Absent
                ELSE Stored(JSONstringify(formParcelles)))
  /\ photos = {}
  /\ imageFiles = {}
  /\ assets = {}
  /\ queue = <<>>
  /\ screen = "form"
  /\ numeroDeLot = <<>>
  /\ etatDeParcelle = <<>>
  /\ nombreDeLogement = <<>>
  /\ image = NoImage
  /\ errors = NoErrors
  /\ isSaving = FALSE
  /\ savePc = "idle"
  /\ saveParcelles = <<>>
  /\ listParcelles = SortDesc(formParcelles)
  /\ isLoading = FALSE
  /\ isDeleting = NoId
  /\ deleteAllPc = "idle"
  /\ deleteAllParcellesSeen = <<>>
  /\ deleteMedia = {}
  /\ ExportIdle
  /\ StorageReady
  /\ alerts = <<>>
  /\ onSaveArgs = <<>>

NextValidate == \E f \in AllFills : HandleSave(f)

SpecValidate == InitValidate /\ [][NextValidate]_vars

\* ------------------------------------------------------------------ export
\* formatDate: toLocaleDateString('fr-FR', ...) of new Date(dateString)
formatDate(dateString) == <<"fr-FR", getTime(dateString)>>

\* The object excelData holds for parcelles[index]: its keys, in the order
\* they are written, each with its value.  acheve || '' and enCours || ''
\* are the field itself: the only falsy string is ''.
ExcelRow(parcelle, index) ==
  << <<"N Sequentiel", index + 1>>,
     <<"N de Lot", parcelle.numeroDeLot>>,
     <<"Etat de Parcelle", parcelle.etatDeParcelle>>,
     <<"Nombre de Logements", parcelle.nombreDeLogement>>,
     <<"Etages Acheves", parcelle.acheve>>,
     <<"Etages en Cours", parcelle.enCours>>,
     <<"Nom de l'Image",
       IF parcelle.image = NoImage THEN "Aucune image" ELSE parcelle.image.name>>,
     <<"Contient une Image", IF parcelle.image = NoImage THEN "Non" ELSE "Oui">>,
     <<"Photo dans Galerie", IF HasAssetId(parcelle.image) THEN "Oui" ELSE "Non">>,
     <<"Date d'Ajout", formatDate(parcelle.createdAt)>>,
     <<"ID Parcelle", parcelle.id>> >>

\* excelData numbering its rows from 0.
MutExcelData(parcelles) ==
  [i \in 1..Len(parcelles) |-> ExcelRow(parcelles[i], i - 2)]

\* parcelles.map((parcelle, index) => ({...})), index counted from 0
excelData(parcelles) ==
  [i \in 1..Len(parcelles) |-> ExcelRow(parcelles[i], i - 1)]

Keys(obj) == [k \in 1..Len(obj) |-> obj[k][1]]
Values(obj) == [k \in 1..Len(obj) |-> obj[k][2]]

\* XLSX.utils.json_to_sheet of objects that all have the keys of the first:
\* a header row of the keys, then one row of values for each object
json_to_sheet(data) ==
  IF data = <<>> THEN <<>>
  ELSE <<Keys(data[1])>> \o [i \in 1..Len(data) |-> Values(data[i])]

\* catch and finally of exportToExcel
ExportFailed ==
  /\ Shows(<<AlertExportError>>)
  /\ isExporting' = FALSE
  /\ exportPc' = "idle"
  /\ wbout' = NoFile

\* exportToExcel leaving its try block normally, then finally
ExportSucceeded(notice) ==
  /\ Shows(<<notice>>)
  /\ isExporting' = FALSE
  /\ exportPc' = "idle"
  /\ wbout' = NoFile

\* exportToExcel without the test for an empty collection.
MutExportToExcel ==
  /\ isExporting' = TRUE
  /\ wbout' = json_to_sheet(excelData(listParcelles))
  /\ exportPc' = "write"
  /\ Quiet
  /\ UNCHANGED <<exportFile, shared>>

\* exportToExcel up to its await on writeAsStringAsync
exportToExcel ==
  IF Len(listParcelles) = 0
    THEN /\ Shows(<<AlertNothingToExport>>)
         /\ UNCHANGED exportVars
    ELSE /\ isExporting' = TRUE
         /\ wbout' = json_to_sheet(excelData(listParcelles))
         /\ exportPc' = "write"
         /\ Quiet
         /\ UNCHANGED <<exportFile, shared>>

\* What no step of exportToExcel touches.
exportFrame ==
  <<variant, initVars, now, storage, photos, imageFiles, assets, queue, screen,
    formVars, listVars>>

\* exportToExcel is called on the list screen, with no export running
\* (the export button is disabled while isExporting).
ExportCall ==
  /\ screen = "list" /\ ~isLoading
  /\ exportPc = "idle"
  /\ Pending < MaxQueue
  /\ exportToExcel
  /\ UNCHANGED exportFrame

\* FileSystem.writeAsStringAsync(fileUri, wbout) resolved or rejected
ExportWrite ==
  /\ exportPc = "write"
  /\ \E ok \in BOOLEAN :
       IF ok
         THEN /\ exportFile' = wbout
              /\ exportPc' = "available"
              /\ Quiet
              /\ UNCHANGED <<isExporting, wbout, shared>>
         ELSE ExportFailed /\ UNCHANGED <<exportFile, shared>>
  /\ UNCHANGED exportFrame

\* Sharing.isAvailableAsync(): true, false or rejected
ExportAvailable ==
  /\ exportPc = "available"
  /\ \E outcome \in {"true", "false", "error"} :
       CASE outcome = "true" ->
              /\ exportPc' = "share"
              /\ Quiet
              /\ UNCHANGED <<isExporting, wbout>>
         [] outcome = "false" -> ExportSucceeded(AlertExportSaved)
         [] OTHER -> ExportFailed
  /\ UNCHANGED <<exportFile, shared, exportFrame>>

\* Sharing.shareAsync(fileUri, ...) resolved or rejected
ExportShare ==
  /\ exportPc = "share"
  /\ \E ok \in BOOLEAN :
       IF ok
         THEN /\ shared' = shared \cup {exportFile}
              /\ ExportSucceeded(AlertExportShared)
         ELSE ExportFailed /\ UNCHANGED shared
  /\ UNCHANGED <<exportFile, exportFrame>>


\* ------------------------------------------------- a store from earlier runs
\* The list screen over a store that earlier runs have written: records saved
\* without a photo, and records whose image carries the id of its gallery
\* asset (Parcelle.image.assetId), each asset present in the gallery.
GalleryImage(assetId) ==
  [uri |-> "capture", name |-> "Parcelle.jpg", assetId |-> assetId]

StoredG2 ==
  NewParcelle(Fill(<<"B">>, <<"x">>, <<"5">>, Photo), GalleryImage("asset2"), 2)
StoredG3 ==
  NewParcelle(Fill(<<"C">>, <<"x">>, <<"3", "0">>, Photo),
              GalleryImage("asset3"), 3)

StoredCollections ==
  {<<>>, <<ExistingA>>, <<StoredG2>>, <<ExistingA, ExistingB>>,
   <<ExistingA, StoredG2>>, <<ExistingA, ExistingB, StoredG3>>,
   <<ExistingA, StoredG2, StoredG3>>}

\* The list has mounted and loaded the store; nothing is in flight.
InitStored ==
  /\ variant \in {"file", "gallery"}
  /\ \E c \in StoredCollections :
       /\ storage = (IF c = <<>> THEN Absent ELSE Stored(JSONstringify(c)))
       /\ listParcelles = SortDesc(JSONparse(JSONstringify(c)))
       /\ now = Len(c)
       /\ assets = AssetIds(c)
  /\ photos = {}
  /\ imageFiles = {}
  /\ queue = <<>>
  /\ screen = "list"
  /\ formParcelles = <<>>
  /\ numeroDeLot = <<>>
  /\ etatDeParcelle = <<>>
  /\ nombreDeLogement = <<>>
  /\ image = NoImage
  /\ errors = NoErrors
  /\ isSaving = FALSE
  /\ savePc = "idle"
  /\ saveParcelles = <<>>
  /\ isLoading = FALSE
  /\ isDeleting = NoId
  /\ deleteAllPc = "idle"
  /\ deleteAllParcellesSeen = <<>>
  /\ deleteMedia = {}
  /\ ExportIdle
  /\ StorageReady
  /\ alerts = <<>>
  /\ onSaveArgs = <<>>

\* The deletes of the list screen, the media-library calls included.
NextStored ==
  \/ ListLoadDone
  \/ DeleteConfirm
  \/ DeleteWriteDone
  \/ DeleteMedia
  \/ DeleteAllConfirm
  \/ DeleteAllMedia
  \/ DeleteAllDone

SpecStored == InitStored /\ [][NextStored]_vars

\* exportToExcel applied to every loaded collection, the empty one included.
NextExport ==
  \/ ExportCall
  \/ ExportWrite
  \/ ExportAvailable
  \/ ExportShare

SpecExport == InitStored /\ [][NextExport]_vars


\* ------------------------------------------- every operation, with fairness
\* The list over a store that holds one record with a gallery asset, written
\* at the last clock reading; every operation of both screens may follow.
InitLive ==
  /\ variant \in {"file", "gallery"}
  /\ storage = Stored(JSONstringify(<<StoredG2>>))
  /\ listParcelles = SortDesc(JSONparse(JSONstringify(<<StoredG2>>)))
  /\ now = StoredG2.id
  /\ assets = AssetIds(<<StoredG2>>)
  /\ photos = {}
  /\ imageFiles = {}
  /\ queue = <<>>
  /\ screen = "list"
  /\ formParcelles = <<>>
  /\ numeroDeLot = <<>>
  /\ etatDeParcelle = <<>>
  /\ nombreDeLogement = <<>>
  /\ image = NoImage
  /\ errors = NoErrors
  /\ isSaving = FALSE
  /\ savePc = "idle"
  /\ saveParcelles = <<>>
  /\ isLoading = FALSE
  /\ isDeleting = NoId
  /\ deleteAllPc = "idle"
  /\ deleteAllParcellesSeen = <<>>
  /\ deleteMedia = {}
  /\ ExportIdle
  /\ StorageReady
  /\ alerts = <<>>
  /\ onSaveArgs = <<>>

\* The fills tried under fairness: one that is saved with its photo and one
\* that validateForm rejects.
LiveFills ==
  { Fill(<<" ", "A", " ">>, <<"x">>, <<" ", "5">>, Photo),
    Fill(<<" ">>, <<>>, <<"0">>, NoImage) }

\* Every operation of the two screens; exports are called until one has
\* written its file.
NextLive ==
  \/ ListLoadDone
  \/ DeleteConfirm
  \/ DeleteWriteDone
  \/ DeleteMedia
  \/ DeleteAllConfirm
  \/ DeleteAllMedia
  \/ DeleteAllDone
  \/ OpenForm
  \/ Back
  \/ FormLoadDone
  \/ \E f \in LiveFills : HandleSave(f)
  \/ SavePermission
  \/ SaveCopy
  \/ SaveToLibrary
  \/ SaveTempDelete
  \/ SaveWriteDone
  \/ exportFile = NoFile /\ ExportCall
  \/ ExportWrite
  \/ ExportAvailable
  \/ ExportShare

\* Every awaited device call eventually resolves or rejects: the step that
\* resumes a handler at its await is taken if it stays enabled.  The user's
\* gestures (opening the form, pressing a button) carry no fairness.
AwaitsReturn ==
  /\ WF_vars(ListLoadDone)
  /\ WF_vars(FormLoadDone)
  /\ WF_vars(DeleteWriteDone)
  /\ WF_vars(DeleteMedia)
  /\ WF_vars(DeleteAllMedia)
  /\ WF_vars(DeleteAllDone)
  /\ WF_vars(SavePermission)
  /\ WF_vars(SaveCopy)
  /\ WF_vars(SaveToLibrary)
  /\ WF_vars(SaveTempDelete)
  /\ WF_vars(SaveWriteDone)
  /\ WF_vars(ExportWrite)
  /\ WF_vars(ExportAvailable)
  /\ WF_vars(ExportShare)

SpecLive == InitLive /\ [][NextLive]_vars /\ AwaitsReturn


\* ------------------------------------------- the mount of the file variant
\* useEffect of the file variant's form: initializeStorage() and
\* loadParcelles() are called, neither is awaited; each is at its first
\* await.  The image directory may or may not exist yet.
InitFile ==
  /\ variant = "file"
  /\ imagesDir \in BOOLEAN
  /\ initPc = "info"
  /\ \E c \in ExistingCollections :
       /\ storage = (IF c = <<>> THEN Absent ELSE Stored(JSONstringify(c)))
       /\ listParcelles = SortDesc(c)
       /\ now = Len(c)
  /\ photos = {}
  /\ imageFiles = {}
  /\ assets = {}
  /\ queue = <<LoadRequest("fload")>>
  /\ screen = "form"
  /\ formParcelles = <<>>
  /\ numeroDeLot = <<>>
  /\ etatDeParcelle = <<>>
  /\ nombreDeLogement = <<>>
  /\ image = NoImage
  /\ errors = NoErrors
  /\ isSaving = FALSE
  /\ savePc = "idle"
  /\ saveParcelles = <<>>
  /\ isLoading = FALSE
  /\ isDeleting = NoId
  /\ deleteAllPc = "idle"
  /\ deleteAllParcellesSeen = <<>>
  /\ deleteMedia = {}
  /\ ExportIdle
  /\ alerts = <<>>
  /\ onSaveArgs = <<>>

\* What no step of initializeStorage touches.
initFrame ==
  <<variant, exportVars, now, storage, photos, imageFiles, assets, queue,
    screen, formVars, listVars>>

\* initializeStorage from its await on getInfoAsync on: the directory exists
\* (the function ends), does not (makeDirectoryAsync is awaited), or the call
\* rejects (catch: logged)
InitializeStorageInfo ==
  /\ initPc = "info"
  /\ \E ok \in BOOLEAN :
       initPc' = IF ~ok THEN "failed"
                 ELSE IF imagesDir THEN "found" ELSE "mkdir"
  /\ Quiet
  /\ UNCHANGED <<imagesDir, initFrame>>

\* initializeStorage from its await on makeDirectoryAsync on: resolved, or
\* rejected (catch: logged)
InitializeStorageMakeDir ==
  /\ initPc = "mkdir"
  /\ \E ok \in BOOLEAN :
       /\ imagesDir' = ok
       /\ initPc' = IF ok THEN "created" ELSE "failed"
  /\ Quiet
  /\ UNCHANGED initFrame

NextFile ==
  \/ InitializeStorageInfo
  \/ InitializeStorageMakeDir
  \/ FormLoadDone
  \/ \E f \in Fills : HandleSave(f)
  \/ SaveCopy
  \/ SaveWriteDone
  \/ ListLoadDone

SpecFile == InitFile /\ [][NextFile]_vars

\* ------------------------------------------------------------------ claims
\* The persisted collection, empty when the key is absent.
Persisted == IF storage.has THEN storage.val ELSE <<>>

Records(s) == {s[i] : i \in 1..Len(s)}

\* A step in which the save button was pressed (only HandleSave reads the
\* user's gesture, which is what advances the clock).
SavePressed == now' # now

\* C1: in every reachable state, any two distinct records of the persisted
\* collection have different numeroDeLot values after trimming.
C1_LotNumbersUnique ==
  \A i, j \in 1..Len(Persisted) :
    i # j => Trim(Persisted[i].numeroDeLot) # Trim(Persisted[j].numeroDeLot)

\* C1 witness: two records are persisted and the form, which holds one of
\* them, has just rejected an untrimmed copy of its lot number.
C1_Witness ==
  /\ Len(Persisted) >= 2
  /\ numeroDeLot = <<" ", "A", " ">>
  /\ "numeroDeLot" \in DOMAIN errors
  /\ \E i \in 1..Len(Persisted) : Persisted[i].numeroDeLot = <<"A">>

\* C2: a successful form save leaves the persisted collection equal to the
\* one just before it with the new record appended at the end; stated here by
\* what that equality promises: the collection written extends the one that
\* was persisted, so no previously stored record is dropped.
C2_SaveAppends ==
  [][(HeadIs({"fsave"}) /\ storage' # storage)
       => /\ Len(storage'.val) > Len(Persisted)
          /\ SubSeq(storage'.val, 1, Len(Persisted)) = Persisted]_vars

\* C3: when validateForm reports an error, and it reports the uniqueness
\* error whenever the trimmed lot number is that of a record of the form's
\* collection, handleSave has no side effect: nothing is copied, registered,
\* queued or written and both collections stay as they are.
C3_InvalidSaveHasNoEffect ==
  [][SavePressed =>
       /\ (\E i \in 1..Len(formParcelles) :
             formParcelles[i].numeroDeLot = Trim(numeroDeLot'))
            => /\ "numeroDeLot" \in DOMAIN errors'
               /\ errors'["numeroDeLot"] = "Ce numero de lot existe deja"
       /\ ~IsValid(errors')
            => /\ UNCHANGED <<storage, photos, imageFiles, assets, queue,
                              formParcelles, listParcelles, isSaving, savePc>>
               /\ alerts' = <<>> /\ onSaveArgs' = <<>>]_vars

\* C3 witness: a record is persisted, the form holds it and has rejected its
\* lot number as a duplicate; nothing is in flight.
C3_Witness ==
  /\ screen = "form"
  /\ Len(Persisted) = 1 /\ formParcelles = JSONparse(Persisted)
  /\ "numeroDeLot" \in DOMAIN errors
  /\ errors["numeroDeLot"] = "Ce numero de lot existe deja"
  /\ queue = <<>> /\ savePc = "idle" /\ ~isSaving

\* C8: the list's in-memory collection is ordered descending by createdAt in
\* every reachable state, so records created at t1 < t2 < t3 show as
\* [t3, t2, t1].
C8_DisplayDescending ==
  \A i, j \in 1..Len(listParcelles) :
    i < j => getTime(listParcelles[i].createdAt)
               >= getTime(listParcelles[j].createdAt)

\* C8 witness: three records stored oldest first are displayed newest first.
C8_Witness ==
  /\ Len(listParcelles) = 3 /\ Len(Persisted) = 3
  /\ \A i \in 1..3 : getTime(Persisted[i].createdAt) = i
  /\ \A i \in 1..3 : getTime(listParcelles[i].createdAt) = 4 - i

\* A step in which the setItem of a single delete resolved (a rejected one
\* queues the reload instead).
DeleteWritten == HeadIs({"ldelete"}) /\ queue' = Tail(queue)

\* C6: a confirmed single delete of id X removes exactly the record with id X
\* from the persisted collection and leaves every other persisted record in
\* place, so the size drops by one; if no persisted record has id X the
\* persisted collection keeps its records.
C6_DeleteRemovesExactlyThat ==
  [][DeleteWritten =>
       LET X == Head(queue).id
           hit == {r \in Records(Persisted) : r.id = X}
       IN /\ Records(storage'.val) = Records(Persisted) \ hit
          /\ Len(storage'.val) = Len(Persisted) - Cardinality(hit)
          /\ Cardinality(hit) <= 1]_vars

\* C7: when a delete-all completes, the key is absent and the list is empty,
\* and from then on every load returns the empty sequence until a form save
\* writes a new record: an empty persisted collection gets records from a
\* form save only.
C7_ClearedUntilSaved ==
  [][/\ (HeadIs({"lclear"}) /\ storage' # storage)
          => (~storage'.has /\ listParcelles' = <<>>)
     /\ (Persisted = <<>> /\ Persisted' # <<>>) => HeadIs({"fsave"})]_vars

\* C9: the persisted collection is in insertion order in every reachable
\* state: its records appear oldest first.
C9_StorageInInsertionOrder ==
  \A i, j \in 1..Len(Persisted) :
    i < j => getTime(Persisted[i].createdAt) < getTime(Persisted[j].createdAt)

NewestFirst(s) ==
  \A i, j \in 1..Len(s) :
    i < j => getTime(s[i].createdAt) > getTime(s[j].createdAt)

\* C9 as amended: a form save writes its new record last, after the records
\* the form held, and they are all older; a single delete writes the list's
\* display order, so the collection it persists is ordered newest first.
C9_SaveAppendsDeleteStoresDisplayOrder ==
  [][/\ (HeadIs({"fsave"}) /\ storage' # storage)
          => LET written == storage'.val
                 n == Len(written)
             IN /\ n >= 1
                /\ written[n].id = now
                /\ \A i \in 1..(n - 1) :
                     getTime(written[i].createdAt) < getTime(written[n].createdAt)
     /\ DeleteWritten => NewestFirst(storage'.val)]_vars

\* C9 witness: a single delete has left two records persisted newest first.
C9_Witness ==
  /\ Len(Persisted) = 2
  /\ NewestFirst(Persisted)
  /\ listParcelles = JSONparse(Persisted)

ListRoundTrip(text) == JSONstringify(SortDesc(JSONparse(text)))

PositiveNumerals == {<<"5">>, <<"3", "0">>}
BlankInputs == {<<>>, <<" ">>}

LotRuleBroken(lot, existing) ==
  \/ lot \in BlankInputs
  \/ \E r \in Records(existing) : Trim(r.numeroDeLot) = Trim(lot)

EtatRuleBroken(etat) == etat \in BlankInputs

LogementRuleBroken(logement) ==
  \/ logement \in BlankInputs
  \/ Trim(logement) \notin PositiveNumerals

BrokenRules(lot, etat, logement, existing) ==
  {f \in {"numeroDeLot"} : LotRuleBroken(lot, existing)}
    \cup {f \in {"etatDeParcelle"} : EtatRuleBroken(etat)}
    \cup {f \in {"nombreDeLogement"} : LogementRuleBroken(logement)}

\* C4: validateForm evaluates the three field rules independently: the
\* errors it returns name exactly the fields whose rule is broken, and
\* handleSave goes on (isSaving is set) iff there is none.
C4_ErrorsAreExactlyBrokenRules ==
  [][SavePressed =>
       /\ DOMAIN errors' = BrokenRules(numeroDeLot', etatDeParcelle',
                                       nombreDeLogement', formParcelles)
       /\ IsValid(errors') <=> isSaving']_vars

\* C4 witness: a press that broke the three rules at once, the lot number
\* by being the one of an existing record.
C4_Witness ==
  /\ DOMAIN errors = {"numeroDeLot", "etatDeParcelle", "nombreDeLogement"}
  /\ errors["numeroDeLot"] = "Ce numero de lot existe deja"
  /\ now > Len(formParcelles)

\* C5: for nombreDeLogement, validateForm gives the "required" error iff the
\* value is empty after trimming, the "positive number" error iff it is not
\* empty and is not a number greater than 0 ("0", "-3", "abc"), and no error
\* for a number greater than 0 ("5").
C5_LogementErrors ==
  [][SavePressed =>
       LET n == nombreDeLogement'
           has == "nombreDeLogement" \in DOMAIN errors'
       IN /\ (has /\ errors'["nombreDeLogement"] = "Nombre de logements requis")
               <=> n \in BlankInputs
          /\ (has /\ errors'["nombreDeLogement"] = "Doit etre un nombre positif")
               <=> n \in {<<"0">>, <<"-", "3">>, <<"a", "b", "c">>, <<"5", "a">>}
          /\ ~has <=> n \in {<<"5">>, <<" ", "5">>, <<"3", "0">>}]_vars

\* C5 witness: "0" was rejected as not positive by a press whose other
\* fields were valid.
C5_Witness ==
  /\ nombreDeLogement = <<"0">>
  /\ DOMAIN errors = {"nombreDeLogement"}
  /\ errors["nombreDeLogement"] = "Doit etre un nombre positif"

\* A step in which the setItem of handleSave rejected: the request leaves the
\* queue and no reload of the list is queued behind it.
SaveWriteFailed == HeadIs({"fsave"}) /\ queue' = Tail(queue)

\* The record handleSave built for the write at the head of the queue.
WrittenRecord == Head(queue).data[Len(Head(queue).data)]

\* C11: when the storage write of handleSave fails, one error notice is
\* shown, the persisted collection is unchanged, the form's collection still
\* holds the record added before the write, onSave is not called, and the
\* form is neither reset nor left.
C11_WriteFailureKeepsForm ==
  [][SaveWriteFailed =>
       /\ alerts' = <<AlertSaveError>>
       /\ storage' = storage
       /\ \E i \in 1..Len(formParcelles') :
            formParcelles'[i].id = WrittenRecord.id
       /\ onSaveArgs' = <<>>
       /\ UNCHANGED <<fieldVars, errors, screen>>
       /\ ~isSaving']_vars

\* A step in which the getItem of the list's loadParcelles resolved or
\* rejected.
ListLoaded == HeadIs({"lload"}) /\ queue' = Tail(queue)

\* C12: every load of the list, the reload on a later focus included, ends
\* with an empty in-memory collection when nothing is stored and when the
\* read fails (the catch path, which shows the load error), and leaves the
\* loading state.
C12_LoadFailsToEmpty ==
  [][ListLoaded =>
       /\ (~storage.has \/ alerts' = <<AlertLoadError>>)
            => listParcelles' = <<>>
       /\ ~isLoading']_vars

\* C13: exportToExcel on an empty in-memory collection shows the "nothing
\* to export" notice and returns: no workbook is built, no file written,
\* nothing shared, and isExporting is not set.
C13_EmptyExportRejected ==
  [][(exportPc = "idle" /\ listParcelles = <<>>)
       => /\ alerts' = <<AlertNothingToExport>>
          /\ wbout' = NoFile /\ exportFile' = NoFile /\ shared' = {}
          /\ ~isExporting' /\ exportPc' = "idle"]_vars

\* C13 witness: the notice is up over an empty list and no export exists.
C13_Witness ==
  /\ listParcelles = <<>> /\ alerts = <<AlertNothingToExport>>
  /\ ~isExporting /\ exportFile = NoFile /\ shared = {}

ExportHeader ==
  <<"N Sequentiel", "N de Lot", "Etat de Parcelle", "Nombre de Logements",
    "Etages Acheves", "Etages en Cours", "Nom de l'Image", "Contient une Image",
    "Photo dans Galerie", "Date d'Ajout", "ID Parcelle">>

\* The sheet the claim describes for the collection ps.
WellFormedSheet(sheet, ps) ==
  /\ Len(sheet) = Len(ps) + 1
  /\ sheet[1] = ExportHeader
  /\ \A i \in 1..Len(ps) :
       LET row == sheet[i + 1] IN
         /\ Len(row) = 11
         /\ row[1] = i
         /\ row[2] = ps[i].numeroDeLot
         /\ row[3] = ps[i].etatDeParcelle
         /\ row[4] = ps[i].nombreDeLogement
         /\ row[5] = ps[i].acheve
         /\ row[6] = ps[i].enCours
         /\ row[7] = (IF ps[i].image = NoImage THEN "Aucune image"
                      ELSE ps[i].image.name)
         /\ row[8] = (IF ps[i].image = NoImage THEN "Non" ELSE "Oui")
         /\ row[9] = (IF ps[i].image.assetId \in {"asset2", "asset3"}
                      THEN "Oui" ELSE "Non")
         /\ row[10] = formatDate(ps[i].createdAt)
         /\ row[11] = ps[i].id

\* C14: exporting N >= 1 records gives one header row and N data rows, one
\* per record in display order numbered 1..N, with the 11 columns in the
\* fixed order; this is the workbook built, the file written and what is
\* shared.
C14_SheetHasHeaderAndNRows ==
  /\ wbout # NoFile => WellFormedSheet(wbout, listParcelles)
  /\ exportFile # NoFile => WellFormedSheet(exportFile, listParcelles)
  /\ \A sheet \in shared : WellFormedSheet(sheet, listParcelles)

\* C14 witness: three records, two of them with a gallery asset, have been
\* exported and shared: four rows, the first data row being the newest.
C14_Witness ==
  /\ Len(listParcelles) = 3
  /\ exportFile \in shared
  /\ Len(exportFile) = 4
  /\ exportFile[2][1] = 1 /\ exportFile[2][11] = 3
  /\ exportFile[2][9] = "Oui" /\ exportFile[4][9] = "Non"

\* A step in which requestPermissionsAsync of saveImageToMediaLibrary came
\* back with a status other than granted.
SavePermissionDenied == savePc = "perm" /\ alerts' = <<AlertPermission>>

\* A step in which the setItem of handleSave resolved: the form is left.
SaveWritten == HeadIs({"fsave"}) /\ screen' = "list"

\* C15: in the gallery variant a denied photo-library permission makes no
\* temp copy and registers nothing in the gallery, and handleSave goes on:
\* it appends the record, whose image is the capture (its uri and name, no
\* assetId), to the collection of its render and writes it; a write that
\* resolves stores exactly that collection.
C15_DenialStillSaves ==
  [][/\ SavePermissionDenied =>
          /\ variant = "gallery"
          /\ UNCHANGED <<photos, imageFiles, assets>>
          /\ savePc' = "write" /\ isSaving'
          /\ formParcelles' =
               Append(saveParcelles, NewParcelle(CurrentFill, Photo, now))
          /\ queue' = Append(queue, Request("fsave",
                                JSONstringify(formParcelles'), NoId))
     /\ SaveWritten => storage' = Stored(Head(queue).data)]_vars

\* C15 witness: the gallery variant has stored a record whose image is the
\* capture itself, and the gallery holds no photo.
C15_Witness ==
  /\ variant = "gallery" /\ photos = {}
  /\ \E i \in 1..Len(Persisted) :
       /\ Persisted[i].image.uri = "capture"
       /\ Persisted[i].image.name = "parcelle.jpg"
       /\ Persisted[i].image.assetId = "absent"

\* A step in which deleteImageFromMediaLibrary returned to a single delete.
DeleteMediaReturned == Cardinality(deleteMedia') < Cardinality(deleteMedia)

\* A step in which deleteAllMediaLibraryImages returned to delete-all.
DeleteAllMediaReturned == deleteAllPc = "perm" /\ deleteAllPc' = "remove"

\* C16: deleting gallery assets is best effort.  Whatever the outcome of the
\* permission request and of deleteAssets, a single delete, whose write has
\* already resolved, shows its success notice and rolls nothing back (no
\* reload, storage and list as they are), and a delete-all goes on to
\* removeItem without a notice; a removeItem that resolves then empties the
\* store and the list and shows the success notice.
C16_AssetDeletionBestEffort ==
  [][/\ DeleteMediaReturned =>
          /\ alerts' = <<AlertDeleted>>
          /\ UNCHANGED <<storage, listParcelles, queue, isLoading>>
          /\ isDeleting' = NoId
     /\ DeleteAllMediaReturned =>
          /\ alerts' = <<>>
          /\ queue' = Append(queue, LoadRequest("lclear"))
          /\ UNCHANGED <<storage, listParcelles>>
     /\ (HeadIs({"lclear"}) /\ storage' # storage) =>
          /\ alerts' = <<AlertAllDeleted>>
          /\ ~storage'.has /\ listParcelles' = <<>>]_vars

\* C16 witness: the record of asset3 has been deleted on its own and the
\* success notice is up, while the asset is still in the gallery.
C16_Witness ==
  /\ alerts = <<AlertDeleted>> /\ deleteMedia = {}
  /\ "asset3" \in assets
  /\ storage.has /\ \A i \in 1..Len(Persisted) : Persisted[i].id # 3

MutationsInFlight ==
  Cardinality({i \in 1..Len(queue) : queue[i].who = "ldelete"})
    + Cardinality(deleteMedia)
    + (IF savePc # "idle" THEN 1 ELSE 0)
    + (IF deleteAllPc # "idle" THEN 1 ELSE 0)

\* C18: at most one mutating operation on the persisted collection (form
\* save, single delete, delete-all) is in flight at any time.
C18_OneMutationInFlight == MutationsInFlight <= 1

\* A step in which the image step handleSave was awaiting (the copy, the
\* gallery registration or the temp delete) rejected.
ImageStepFailed == savePc \in {"copy", "lib", "tmpdel"} /\ savePc' = "idle"

\* The image of a persisted record was persisted: the file variant stores
\* only images it has copied into its directory, the gallery variant only
\* images it has registered, or the capture itself after a denial.
ImagePersisted(r) ==
  \/ r.image = NoImage
  \/ /\ variant = "file"
     /\ r.image.uri = "images" /\ r.id \in imageFiles
  \/ /\ variant = "gallery"
     /\ \/ r.image.name = "Parcelle.jpg" /\ r.id \in photos
        \/ r.image = Photo

ListFocused == screen = "form" /\ screen' = "list"

AllCopies ==
  Records(Persisted)
    \cup Records(JSONstringify(listParcelles))
    \cup Records(JSONstringify(formParcelles))
    \cup Records(JSONstringify(saveParcelles))
    \cup Records(JSONstringify(deleteAllParcellesSeen))
    \cup UNION {Records(queue[i].data) : i \in 1..Len(queue)}

\* C21: records are immutable after creation.  No step changes a field of a
\* persisted record (a record of the same id in the store before and after
\* the step is the same record), and every copy of a record, in memory or on
\* its way to the store, has the field values of every other copy with its
\* id, so that a record written back later is the record that was created.
C21_RecordsImmutable ==
  /\ [][\A r \in Records(Persisted), q \in Records(Persisted') :
          r.id = q.id => r = q]_vars
  /\ [](\A r, q \in AllCopies : r.id = q.id => r = q)

\* C21 witness: the record created first is still stored, unchanged, after
\* two more saves and the delete of the second record, whose write stored
\* the collection newest first.
C21_Witness ==
  /\ now = 3 /\ Len(Persisted) = 2
  /\ Persisted[1].id = 3 /\ Persisted[2].id = 1
  /\ Persisted[2].createdAt = toISOString(1)
  /\ queue = <<>> /\ listParcelles = JSONparse(Persisted)

\* C22: in every reachable state no two records of the persisted collection
\* have the same id; an id is the clock reading of the handleSave that built
\* the record, so a stored id is never later than the clock.
C22_IdsUnique ==
  /\ \A i, j \in 1..Len(Persisted) :
        Persisted[i].id = Persisted[j].id => i = j
  /\ \A r \in Records(Persisted) :
        r.id \in 1..now

\* C22 witness: three records built by three handleSave calls are stored.
C22_Witness ==
  /\ Len(Persisted) = 3
  /\ {r.id : r \in Records(Persisted)} = 1..3

\* The data-model constraints on the three text fields of a record.
WellFormed(r) ==
  /\ r.numeroDeLot = Trim(r.numeroDeLot) /\ r.numeroDeLot # <<>>
  /\ r.etatDeParcelle = Trim(r.etatDeParcelle) /\ r.etatDeParcelle # <<>>
  /\ r.nombreDeLogement = Trim(r.nombreDeLogement)
  /\ ~isNaN(Number(r.nombreDeLogement))
  /\ Number(r.nombreDeLogement).val > 0

GalleryFlags(parcelles) ==
  {excelData(parcelles)[i][9][2] : i \in 1..Len(parcelles)}

\* C24: in the gallery variant no record created by handleSave carries an
\* assetId, with the photo registered in the gallery or with the permission
\* denied; so no delete waits on a gallery-asset deletion, delete-all finds no
\* asset to delete, no asset is ever deleted and the export flags no record
\* as being in the gallery.
C24_NoAssetIdFromForm ==
  /\ [](variant = "gallery" =>
          /\ \A r \in AllCopies : ~HasAssetId(r.image)
          /\ \A r \in Records(formParcelles) : ~HasAssetId(r.image)
          /\ deleteMedia = {}
          /\ AssetIds(listParcelles) = {}
          /\ GalleryFlags(listParcelles) \subseteq {"Non"})
  /\ [][variant = "gallery" => assets' = assets]_vars

\* C24 witness: the gallery variant has stored and listed a record whose photo
\* was registered in the gallery and a record saved with the permission
\* denied, which keeps the captured image.
C24_Witness ==
  /\ variant = "gallery"
  /\ \E r \in Records(Persisted) : r.image.name = "Parcelle.jpg" /\ r.id \in photos
  /\ \E r \in Records(Persisted) : r.image = Photo /\ r.id \notin photos
  /\ listParcelles = SortDesc(JSONparse(Persisted))

\* A step in which the setItem of a single delete rejected.
DeleteWriteFailed == HeadIs({"ldelete"}) /\ alerts' = <<AlertDeleteError>>

\* A step in which the removeItem of delete-all rejected.
DeleteAllFailed == HeadIs({"lclear"}) /\ alerts' = <<AlertDeleteError>>

\* C25: a storage write or remove that fails commits nothing.  After the
\* failed setItem of a form save the store is as it was and the gallery holds
\* no photo of the record that was not saved; after the failed setItem of a
\* single delete the store and the gallery assets are as they were and no
\* asset deletion is started; after the failed removeItem of a delete-all the
\* store is as it was and the asset of every record still stored is still in
\* the gallery.
C25_StorageFailureCommitsNothing ==
  [][/\ SaveWriteFailed =>
          /\ storage' = storage
          /\ WrittenRecord.id \notin photos'
     /\ DeleteWriteFailed =>
          /\ storage' = storage
          /\ assets' = assets
          /\ deleteMedia' = deleteMedia
     /\ DeleteAllFailed =>
          /\ storage' = storage
          /\ AssetIds(Persisted') \subseteq assets']_vars

\* A step in which the reload started by a failed single delete completed.
RollbackLoaded == ListLoaded /\ Head(queue).id # NoId

\* C26: a single delete whose storage write fails shows the error notice,
\* leaves the store as it is and starts a reload; when that reload completes
\* the list equals the persisted collection, sorted for display, and holds
\* the record whose deletion failed.
C26_FailedDeleteRollsBack ==
  [][/\ DeleteWriteFailed =>
          /\ storage' = storage
          /\ isLoading'
          /\ queue' = Append(Tail(queue), ReloadRequest(Head(queue).id))
     /\ RollbackLoaded =>
          /\ listParcelles' = SortDesc(JSONparse(Persisted))
          /\ \E r \in Records(listParcelles') : r.id = Head(queue).id]_vars

\* C27: provided every awaited call returns, every started save, single
\* delete, delete-all, load and export leaves its awaits, and its busy flag
\* is cleared: isSaving, isExporting and the list's isLoading return to
\* false and isDeleting to null.
C27_BusyFlagsCleared ==
  /\ isSaving ~> ~isSaving
  /\ (savePc # "idle") ~> (savePc = "idle")
  /\ (isDeleting # NoId) ~> (isDeleting = NoId)
  /\ (deleteMedia # {}) ~> (deleteMedia = {})
  /\ isLoading ~> ~isLoading
  /\ (deleteAllPc # "idle") ~> (deleteAllPc = "idle")
  /\ isExporting ~> ~isExporting
  /\ (exportPc # "idle") ~> (exportPc = "idle")

\* C27 witness: a record was saved and is stored, the record stored at the
\* start and its asset were deleted, and an export has just failed; every
\* flag is cleared and nothing is in flight.
C27_Witness ==
  /\ \E r \in Records(Persisted) : r.id = MaxClock
  /\ StoredG2 \notin Records(Persisted) /\ assets = {}
  /\ alerts = <<AlertExportError>>
  /\ ~isSaving /\ ~isLoading /\ ~isExporting /\ isDeleting = NoId
  /\ Pending = 0 /\ exportPc = "idle" /\ savePc = "idle"

\* A step in which handleSave calls saveImageToFileSystem, which calls
\* copyAsync.
CopyAttempted == variant = "file" /\ savePc = "idle" /\ savePc' = "copy"

\* C28: in the file variant the image directory exists whenever a photo is
\* about to be copied into it: no copy is attempted before initializeStorage
\* has ended with the directory found or created.
C28_DirectoryBeforeCopy ==
  [][CopyAttempted => initPc \in {"found", "created"} /\ imagesDir]_vars

\* A step in which a single delete goes on to deleteImageFromMediaLibrary.
AssetDeletionStarted == deleteMedia' \ deleteMedia # {}

\* C29: a single delete goes on to delete the gallery asset of its record
\* only in the step in which its storage write resolved, which stores the
\* reduced collection; a step in which the write rejected starts no asset
\* deletion and deletes no asset; and the only asset a single delete removes
\* is one whose deletion it started.
C29_AssetDeletedAfterWrite ==
  [][/\ AssetDeletionStarted =>
          /\ HeadIs({"ldelete"})
          /\ storage' = Stored(Head(queue).data)
          /\ \A r \in Records(Persisted') : r.id # Head(queue).id
          /\ deleteMedia' = deleteMedia \cup
                {[id |-> Head(queue).id, assetId |-> Head(queue).image.assetId]}
     /\ DeleteWriteFailed =>
          /\ deleteMedia' = deleteMedia
          /\ assets' = assets
     /\ DeleteMediaReturned =>
          assets \ assets' \subseteq {d.assetId : d \in deleteMedia}]_vars

\* C29 witness: the write of the delete of a record with a gallery asset has
\* just rejected; the record is stored, its asset is in the gallery, no
\* asset deletion is under way and the reload is queued.
C29_Witness ==
  /\ alerts = <<AlertDeleteError>>
  /\ StoredG2 \in Records(Persisted) /\ StoredG2.image.assetId \in assets
  /\ deleteMedia = {}
  /\ queue = <<ReloadRequest(StoredG2.id)>>

\* What validateForm returns for the fields as they are after the step.
RetryErrors ==
  validateForm(numeroDeLot', etatDeParcelle', nombreDeLogement', formParcelles')

\* C30: after a handleSave whose storage write failed, the fields keep what
\* was typed and the form's collection keeps the record, so validateForm
\* rejects a retry with the same lot number as a duplicate, although no
\* persisted record has that lot number; and a handleSave that validateForm
\* rejects queues no storage write and leaves the store as it is.
C30_RetryRejectedAsDuplicate ==
  [][/\ SaveWriteFailed =>
          /\ UNCHANGED fieldVars
          /\ "numeroDeLot" \in DOMAIN RetryErrors
          /\ RetryErrors["numeroDeLot"] = "Ce numero de lot existe deja"
          /\ \A r \in Records(Persisted') : r.numeroDeLot # Trim(numeroDeLot')
     /\ (SavePressed /\ ~IsValid(errors')) =>
          /\ queue' = queue
          /\ storage' = storage]_vars

====
